---------------------------- MODULE Spec2Model ----------------------------
(***************************************************************************)
(* A model of the clicking game of src/main.js: the pointer tracker        *)
(* (MouseTracker), the one-axis motion engine (BoundedMotion) and the      *)
(* controller that couples them (MovingButton).                            *)
(*                                                                         *)
(* Numbers.  The program computes in IEEE doubles.  The model holds every  *)
(* number as an integer count of a unit and rounds the result of every     *)
(* division, product of scaled values and square root to the nearest unit  *)
(* (halves away from zero), in the order the code performs the operations: *)
(*     positions and displacements   1 px                                  *)
(*     velocities                    1 px/s                                *)
(*     times (engine and clock)      1 ms  (a time in seconds, now / 1000, *)
(*                                   is held as its count of milliseconds) *)
(*     ratios and unit vectors       1 / 1000                              *)
(* NaN (and undefined, which turns into NaN in arithmetic) is the single   *)
(* value NaN; every comparison with it is false, as in the program.        *)
(***************************************************************************)
EXTENDS Integers, Sequences, FiniteSets, TLC

(***************************************************************************)
(* Arithmetic                                                              *)
(***************************************************************************)

\* NaN / undefined (main.js:86-97, 399-401)
NaN == -1000000

\* milliseconds per second: Date.now() / 1000 (main.js:951, 976)
MsPerSec == 1000

\* resolution of dimensionless ratios and of unit vectors
RatioScale == 1000

Abs(a) == IF a < 0 THEN -a ELSE a

Sign(a) == IF a > 0 THEN 1 ELSE IF a < 0 THEN -1 ELSE 0

Max(a, b) == IF a >= b THEN a ELSE b

\* a / b for b > 0, rounded to the nearest integer, halves away from zero
RoundDiv(a, b) ==
    IF a >= 0 THEN (a + (b \div 2)) \div b ELSE -(((-a) + (b \div 2)) \div b)

\* the largest r in lo .. hi with r * r <= n
SqrtSearch[n \in Nat, lo \in Nat, hi \in Nat] ==
    IF lo >= hi THEN lo
    ELSE LET mid == (lo + hi + 1) \div 2
         IN  IF mid * mid <= n THEN SqrtSearch[n, mid, hi]
             ELSE SqrtSearch[n, lo, mid - 1]

\* Math.sqrt(n), rounded to the nearest integer; NaN for a negative n
Sqrt(n) ==
    IF n = NaN \/ n < 0 THEN NaN
    ELSE LET r == SqrtSearch[n, 0, IF n < 46340 THEN n ELSE 46340]
         IN  IF n - (r * r) > r THEN r + 1 ELSE r

(***************************************************************************)
(* BoundedMotion (main.js:366-664): one axis.  An engine is the record of  *)
(* its fields.                                                             *)
(***************************************************************************)

\* checkRange (main.js:305-317) on a number that is not NaN
InRange(num, lower, lowerClosed, upper, upperClosed) ==
    /\ num # NaN
    /\ (num > lower \/ (lowerClosed /\ num = lower))
    /\ (num < upper \/ (upperClosed /\ num = upper))

\* constructor (main.js:390-405)
NewMotion(upperPos, halfReboundVel, accel) ==
    [ upperPos |-> upperPos, halfReboundVel |-> halfReboundVel,
      accel |-> accel, trajStartGlobalTime |-> NaN,
      initPos |-> NaN, pos |-> NaN, initVel |-> 0, vel |-> 0 ]

\* the engines: every field is a number, NaN and undefined included
Motions ==
    [ upperPos : Int, halfReboundVel : Int, accel : Int,
      trajStartGlobalTime : Int, initPos : Int, pos : Int,
      initVel : Int, vel : Int ]

\* the range of setPos with the upper boundary left out
SetPosOkOpenUpper(m, initPos) == InRange(initPos, 0, TRUE, m.upperPos, FALSE)

\* setPos accepts initPos (main.js:416)
SetPosOk(m, initPos) == InRange(initPos, 0, TRUE, m.upperPos, TRUE)

\* setPos (main.js:415-419), when accepted
SetPos(m, initPos) == [m EXCEPT !.initPos = initPos, !.pos = initPos]

\* Infinity: a number beyond every finite number of the model
Infinity == 2000000

\* setVel accepts globalTime and initVel (main.js:432-433): both are finite
SetVelOk(m, globalTime, initVel) ==
    /\ InRange(globalTime, -Infinity, FALSE, Infinity, FALSE)
    /\ InRange(initVel, -Infinity, FALSE, Infinity, FALSE)

\* setVel leaving the time of the origin as it was
SetVelKeepsTime(m, globalTime, initVel) ==
    [m EXCEPT !.initVel = initVel, !.vel = initVel]

\* setVel (main.js:431-437), when accepted
SetVel(m, globalTime, initVel) ==
    [m EXCEPT !.trajStartGlobalTime = globalTime,
              !.initVel = initVel, !.vel = initVel]

\* _velAtTrajTime subtracting the deceleration whatever the direction
VelAtTrajTimeOneWay(m, trajTime) ==
    m.initVel - RoundDiv(m.accel * trajTime, MsPerSec)

\* _velAtTrajTime (main.js:450-459): accel is px/s^2, trajTime is ms
VelAtTrajTime(m, trajTime) ==
    IF m.initVel >= 0
    THEN m.initVel - RoundDiv(m.accel * trajTime, MsPerSec)
    ELSE m.initVel + RoundDiv(m.accel * trajTime, MsPerSec)

\* _trajTimeAtStop taken from the velocity last reported
TrajTimeAtStopFromVel(m) == RoundDiv(Abs(m.vel) * MsPerSec, m.accel)

\* _trajTimeAtStop (main.js:469-471), in ms
TrajTimeAtStop(m) == RoundDiv(Abs(m.initVel) * MsPerSec, m.accel)

\* reboundVel without the sign switch
ReboundVelSameSign(m, vel) ==
    LET ratio == RoundDiv(Abs(vel) * RatioScale, m.halfReboundVel)
    IN  RoundDiv(vel * RatioScale, ratio + RatioScale)

\* reboundVel (main.js:482-504): -vel / ((abs(vel) / halfReboundVel) + 1)
ReboundVel(m, vel) ==
    LET ratio == RoundDiv(Abs(vel) * RatioScale, m.halfReboundVel)
    IN  RoundDiv((-vel) * RatioScale, ratio + RatioScale)

\* _posAtTrajTime taken from the position last reported
PosAtTrajTimeFromPos(m, trajTime, vel) ==
    IF m.pos = NaN THEN NaN
    ELSE m.pos + RoundDiv((m.initVel + vel) * trajTime, 2 * MsPerSec)

\* _posAtTrajTime (main.js:518-520)
PosAtTrajTime(m, trajTime, vel) ==
    IF m.initPos = NaN THEN NaN
    ELSE m.initPos + RoundDiv((m.initVel + vel) * trajTime, 2 * MsPerSec)

\* _trajTimeAtDisp (main.js:535-556), in ms; NaN when the root is not real
TrajTimeAtDisp(m, disp) ==
    IF disp = NaN THEN NaN
    ELSE LET root == Sqrt((m.initVel * m.initVel) - (2 * m.accel * disp))
         IN  IF root = NaN THEN NaN
             ELSE RoundDiv((Abs(m.initVel) - root) * MsPerSec, m.accel)

\* the boundary test without the upper boundary
CrossedLowerOnly(pos, upperPos) == pos # NaN /\ pos < 0

\* the boundary test of update (main.js:615): false for a NaN position
CrossedBoundary(pos, upperPos) == pos # NaN /\ (pos < 0 \/ pos > upperPos)

\* the sign test of update (main.js:591)
VelChangedSign(initVel, vel) ==
    (initVel >= 0 /\ vel < 0) \/ (initVel < 0 /\ vel > 0)

\* the boundary taken to be the lower one whatever the position
BoundaryPosLower(pos, upperPos) == 0

\* the boundary beyond which the position is (main.js:651-655)
BoundaryPos(pos, upperPos) == IF pos < 0 THEN 0 ELSE upperPos

\* what one pass of update that replaces the trajectory computes and
\* assigns (main.js:628-656)
Hits ==
    [ pos : Int, trajTime : Int, computed : Int, hitTime : Int, hitVel : Int,
      startBefore : Int, trajStartGlobalTime : Int, initVel : Int,
      initPos : Int ]

\* the hit-time test without its upper end
HitTimeOkNoUpper(hitTime, trajTime) == hitTime # NaN /\ hitTime >= 0

\* the hit-time test of update (main.js:635): false for a NaN hit time
HitTimeOk(hitTime, trajTime) ==
    hitTime # NaN /\ hitTime >= 0 /\ hitTime <= trajTime

\* the while loop of update (main.js:583-660).  The result carries the
\* engine, the position and velocity of the last pass, the number of
\* trajectory replacements, whether the hit-time diagnostic was logged, and
\* for each replacement in turn what the pass computed (the position beyond
\* the boundary, the time left, the hit time as computed and as used, the
\* hit velocity) and the origin it assigned.
UpdateLoop[m \in Motions, trajTime0 \in Int, n \in Nat, diag \in BOOLEAN, hits \in Seq(Hits)] ==
    LET vel0 == VelAtTrajTime(m, trajTime0)
        stop == VelChangedSign(m.initVel, vel0)
        trajTime == IF stop THEN TrajTimeAtStop(m) ELSE trajTime0
        vel == IF stop THEN 0 ELSE vel0
        pos == PosAtTrajTime(m, trajTime, vel)
    IN  IF CrossedBoundary(pos, m.upperPos)
        THEN LET disp == IF pos < 0 THEN m.initPos ELSE m.upperPos - m.initPos
                 hit0 == TrajTimeAtDisp(m, disp)
                 bad == ~HitTimeOk(hit0, trajTime)
                 hitTime == IF bad THEN trajTime ELSE hit0
                 hitVel == VelAtTrajTime(m, hitTime)
                 start == m.trajStartGlobalTime + hitTime
                 m2 == [m EXCEPT
                          !.trajStartGlobalTime = start,
                          !.initVel = ReboundVel(m, hitVel),
                          !.initPos = BoundaryPos(pos, m.upperPos)]
                 hit == [ pos |-> pos, trajTime |-> trajTime,
                          computed |-> hit0,
                          hitTime |-> hitTime, hitVel |-> hitVel,
                          startBefore |-> m.trajStartGlobalTime,
                          trajStartGlobalTime |-> m2.trajStartGlobalTime,
                          initVel |-> m2.initVel, initPos |-> m2.initPos ]
             IN  UpdateLoop[m2, trajTime - hitTime, n + 1, diag \/ bad,
                            Append(hits, hit)]
        ELSE [ m |-> [m EXCEPT !.pos = pos, !.vel = vel],
               replaced |-> n, diag |-> diag, hits |-> hits ]

\* the time test with trajTime > 0.0
UpdateOkStrict(m, globalTime) ==
    /\ m.trajStartGlobalTime # NaN
    /\ globalTime - m.trajStartGlobalTime > 0

\* update accepts globalTime (main.js:576-581): trajTime >= 0.0
UpdateOk(m, globalTime) ==
    /\ m.trajStartGlobalTime # NaN
    /\ globalTime - m.trajStartGlobalTime >= 0

\* update (main.js:572-663), when accepted
UpdateRun(m, globalTime) ==
    UpdateLoop[m, globalTime - m.trajStartGlobalTime, 0, FALSE, <<>>]

Update(m, globalTime) == UpdateRun(m, globalTime).m

(***************************************************************************)
(* A stand-alone engine driven through its public methods: setPos, setVel, *)
(* update and reboundVel, with any arguments, in any order.                *)
(***************************************************************************)

VARIABLES
    eng,        \* the BoundedMotion instance
    call,       \* the last method call on eng and what it returned
    engOps      \* the number of calls made so far

engVars == <<eng, call, engOps>>

VARIABLES
    mb,         \* the MovingButton, its tracker, its engines, the live timers
    now,        \* Date.now() at the last callback, ms
    inputs,     \* the number of user events delivered so far
    last        \* the last callback: its kind and, for a click, its point

ctlVars == <<mb, now, inputs, last>>

VARIABLES
    trk,        \* a MouseTracker instance on its own
    trkCall,    \* the last event delivered to trk, or call made on it
    trkOps      \* the number of events and calls so far

trkVars == <<trk, trkCall, trkOps>>

VARIABLES
    sides       \* the last call of _entrySides and what it returned

vars == <<eng, call, engOps, mb, now, inputs, last, trk, trkCall, trkOps,
          sides>>

\* the number of method calls made on the stand-alone engine
MaxEngOps == 4

\* constructor arguments tried: <<upperPos, halfReboundVel, accel>>; the
\* first is what MovingButton passes (main.js:705-706) for a small area
EngineParams == { <<6, 1000, 25>>, <<3, 50, 400>> }

\* times (ms), positions and velocities passed to the methods
EngTimes == {0, 10, 1000, 4000}

EngVels == {-4000, -300, -20, 0, 1, 300, 4000}

EngPositions(m) == {-1, 0, 2, m.upperPos, m.upperPos + 1}

\* numbers that are not finite
NonFinite == {NaN, Infinity, -Infinity}

\* arguments <<time, velocity>> of setVel: finite ones, and ones where the
\* time, the velocity or both are not finite
SetVelArgs ==
    (EngTimes \X EngVels) \cup (NonFinite \X {300}) \cup ({10} \X NonFinite)
        \cup {<<NaN, NaN>>}

NoCall ==
    [ op |-> "none", time |-> NaN, arg |-> NaN, res |-> "none", out |-> NaN,
      startBefore |-> NaN, lastBefore |-> NaN, posSet |-> FALSE,
      replaced |-> 0, diag |-> FALSE, hits |-> <<>>,
      base |-> NewMotion(0, 0, 0), polling |-> FALSE ]

InitEngine(p) ==
    /\ eng = NewMotion(p[1], p[2], p[3])
    /\ call = NoCall
    /\ engOps = 0

\* the time of the most recent accepted setVel or successful update
LastTime(c) ==
    IF c.res = "ok" /\ c.op \in {"setVel", "update"} THEN c.time
    ELSE c.lastBefore

\* The record of a call: base is the engine as the last accepted setVel left
\* it, and polling tells that only updates at times that never decreased
\* were accepted since.
EngCall(op, time, arg, res, out, run) ==
    [ op |-> op, time |-> time, arg |-> arg, res |-> res, out |-> out,
      startBefore |-> eng.trajStartGlobalTime, lastBefore |-> LastTime(call),
      posSet |-> call.posSet \/ (op = "setPos" /\ res = "ok"),
      replaced |-> run.replaced, diag |-> run.diag, hits |-> run.hits,
      base |-> IF op = "setVel" /\ res = "ok" THEN eng' ELSE call.base,
      polling |-> IF res # "ok" \/ op = "reboundVel" THEN call.polling
                  ELSE IF op = "setVel" THEN TRUE
                  ELSE IF op = "setPos" THEN FALSE
                  ELSE call.polling /\ time >= LastTime(call) ]

NoRun == [replaced |-> 0, diag |-> FALSE, hits |-> <<>>]

\* eng.setPos(p): a RangeError leaves the engine as it was
EngSetPos(p) ==
    /\ UNCHANGED <<ctlVars, trkVars, sides>>
    /\ engOps < MaxEngOps
    /\ engOps' = engOps + 1
    /\ IF SetPosOk(eng, p)
       THEN /\ eng' = SetPos(eng, p)
            /\ call' = EngCall("setPos", NaN, p, "ok", NaN, NoRun)
       ELSE /\ eng' = eng
            /\ call' = EngCall("setPos", NaN, p, "RangeError", NaN, NoRun)

\* eng.setVel(t, v): a RangeError leaves the engine as it was
EngSetVel(t, v) ==
    /\ UNCHANGED <<ctlVars, trkVars, sides>>
    /\ engOps < MaxEngOps
    /\ engOps' = engOps + 1
    /\ IF SetVelOk(eng, t, v)
       THEN /\ eng' = SetVel(eng, t, v)
            /\ call' = EngCall("setVel", t, v, "ok", NaN, NoRun)
       ELSE /\ eng' = eng
            /\ call' = EngCall("setVel", t, v, "RangeError", NaN, NoRun)

\* eng.update(t): a RangeError leaves the engine as it was
EngUpdate(t) ==
    /\ UNCHANGED <<ctlVars, trkVars, sides>>
    /\ engOps < MaxEngOps
    /\ engOps' = engOps + 1
    /\ IF UpdateOk(eng, t)
       THEN LET run == UpdateRun(eng, t)
            IN  /\ eng' = run.m
                /\ call' = EngCall("update", t, NaN, "ok", NaN, run)
       ELSE /\ eng' = eng
            /\ call' = EngCall("update", t, NaN, "RangeError", NaN, NoRun)

\* eng.reboundVel(v): a pure function of v and halfReboundVel
EngRebound(v) ==
    /\ UNCHANGED <<ctlVars, trkVars, sides>>
    /\ engOps < MaxEngOps
    /\ engOps' = engOps + 1
    /\ eng' = eng
    /\ call' = EngCall("reboundVel", NaN, v, "ok", ReboundVel(eng, v), NoRun)

(***************************************************************************)
(* MouseTracker (main.js:63-284).  A tracker is the record of its fields;  *)
(* the scroll offsets are left out (no scroll event is modelled).          *)
(***************************************************************************)

\* how long until a velocity sample expires, in ms (main.js:114)
SampleExpireTime == 300

\* the client coordinates of the origin of the relative element's padding
\* area: rect.x + _offsetX and rect.y + _offsetY (main.js:103-110, 221-226).
\* The page is scrolled so that the resting button sits in the corner of
\* the viewport.
OriginX == -3

OriginY == -3

\* constructor (main.js:81-116)
NewTracker ==
    [ velX |-> 0, velY |-> 0, posX |-> NaN, posY |-> NaN,
      clientX |-> NaN, clientY |-> NaN,
      lastTimeStamp |-> NaN, nowAtSample |-> NaN ]

\* a - b in doubles: NaN when either is NaN
Minus(a, b) == IF a = NaN \/ b = NaN THEN NaN ELSE a - b

\* _recentVelSample with a sample expiring as it reaches its life
RecentVelSampleStrict(t, time, vel) ==
    IF t.nowAtSample # NaN /\ (time - t.nowAtSample) < SampleExpireTime
    THEN vel ELSE 0

\* _recentVelSample (main.js:134-142)
RecentVelSample(t, time, vel) ==
    IF t.nowAtSample # NaN /\ (time - t.nowAtSample) <= SampleExpireTime
    THEN vel ELSE 0

\* velX, velY (main.js:151-164)
TrackerVelX(t, time) == RecentVelSample(t, time, t.velX)

TrackerVelY(t, time) == RecentVelSample(t, time, t.velY)

\* _timeAvVel keeping the current velocity when the new one is not finite
TimeAvVelKeepsCurr(curr, diffPos, diffTimeMillisec) ==
    IF diffPos = NaN \/ diffTimeMillisec = NaN \/ diffTimeMillisec = 0
    THEN curr
    ELSE LET vel == RoundDiv(diffPos * MsPerSec, diffTimeMillisec)
         IN  IF diffTimeMillisec > SampleExpireTime THEN vel
             ELSE IF curr = 0 THEN vel
             ELSE IF vel < 0 /\ curr > 0 THEN vel
             ELSE IF vel > 0 /\ curr < 0 THEN vel
             ELSE RoundDiv(curr + vel, 2)

\* _timeAvVel without the test of the time that has passed
TimeAvVelNoExpiry(curr, diffPos, diffTimeMillisec) ==
    IF diffPos = NaN \/ diffTimeMillisec = NaN \/ diffTimeMillisec = 0
    THEN 0
    ELSE LET vel == RoundDiv(diffPos * MsPerSec, diffTimeMillisec)
         IN  IF curr = 0 THEN vel
             ELSE IF vel < 0 /\ curr > 0 THEN vel
             ELSE IF vel > 0 /\ curr < 0 THEN vel
             ELSE RoundDiv(curr + vel, 2)

\* _timeAvVel (main.js:190-211): (diffPos / diffTimeMillisec) * 1000 is not
\* finite when an operand is NaN or the time difference is 0.  curr is
\* always finite (0 at first, then a result of this function), so the
\* branch for a curr that is not finite is never taken and is left out.
TimeAvVel(curr, diffPos, diffTimeMillisec) ==
    IF diffPos = NaN \/ diffTimeMillisec = NaN \/ diffTimeMillisec = 0
    THEN 0
    ELSE LET vel == RoundDiv(diffPos * MsPerSec, diffTimeMillisec)
         IN  IF diffTimeMillisec > SampleExpireTime THEN vel
             ELSE IF curr = 0 THEN vel
             ELSE IF vel < 0 /\ curr > 0 THEN vel
             ELSE IF vel > 0 /\ curr < 0 THEN vel
             ELSE RoundDiv(curr + vel, 2)

\* _updateMouseMotion (main.js:213-228), up to the call of the handler
UpdateMouseMotion(t, diffX, diffY, timeStamp, time) ==
    LET diffTime == Minus(timeStamp, t.lastTimeStamp)
    IN  [t EXCEPT !.nowAtSample = time,
                  !.velX = TimeAvVel(t.velX, diffX, diffTime),
                  !.velY = TimeAvVel(t.velY, diffY, diffTime),
                  !.lastTimeStamp = timeStamp,
                  !.posX = Minus(t.clientX, OriginX),
                  !.posY = Minus(t.clientY, OriginY)]

\* the duplicate test with the coordinates crossed
IsDuplicateCrossed(t, clientX, clientY) ==
    t.clientX # NaN /\ t.clientY # NaN /\
    t.clientX = clientY /\ t.clientY = clientX

\* the duplicate test of _updateToClientPos (main.js:235): NaN equals nothing
IsDuplicate(t, clientX, clientY) ==
    t.clientX # NaN /\ t.clientY # NaN /\
    t.clientX = clientX /\ t.clientY = clientY

\* _updateToClientPos (main.js:230-245), when the position is not a duplicate
UpdateToClientPos(t, clientX, clientY, timeStamp, time) ==
    UpdateMouseMotion([t EXCEPT !.clientX = clientX, !.clientY = clientY],
                      Minus(clientX, t.clientX), Minus(clientY, t.clientY),
                      timeStamp, time)

\* _updateToUnknown without the two assignments of NaN
UpdateToUnknownKeepsPos(t, timeStamp, time) ==
    UpdateMouseMotion(t, NaN, NaN, timeStamp, time)

\* _updateToUnknown (main.js:247-251)
UpdateToUnknown(t, timeStamp, time) ==
    UpdateMouseMotion([t EXCEPT !.clientX = NaN, !.clientY = NaN],
                      NaN, NaN, timeStamp, time)

(***************************************************************************)
(* A tracker on its own, with a position handler that does nothing: the    *)
(* host delivers pointer events to it, and its velocity is read.           *)
(***************************************************************************)

\* the number of events delivered to and calls made on the tracker
MaxTrkOps == 3

\* client coordinates the pointer visits
TrkPointers == { <<0, 0>>, <<2, 1>>, <<5, 5>>, <<2, 5>> }

\* the time between an event or call and the one before it, ms: the same
\* timestamp, a short time, the life of a velocity sample and just over it
TrkGaps == {0, 10, SampleExpireTime, SampleExpireTime + 1}

\* before is the tracker as the event found it, notified whether the
\* position handler was called, sampleAt the time of the last event that
\* was not ignored, out the velocity returned
NoTrkCall ==
    [ op |-> "none", x |-> NaN, y |-> NaN, time |-> 0,
      before |-> NewTracker, notified |-> FALSE, sampleAt |-> NaN,
      out |-> <<NaN, NaN>> ]

InitTracker ==
    /\ trk = NewTracker
    /\ trkCall = NoTrkCall
    /\ trkOps = 0

\* mousemove and mouseover (main.js:253-262) at client point <<x, y>>
TrkMove(x, y, gap) ==
    /\ UNCHANGED <<engVars, ctlVars, sides>>
    /\ trkOps < MaxTrkOps
    /\ trkOps' = trkOps + 1
    /\ LET time == trkCall.time + gap
       IN  IF IsDuplicate(trk, x, y)
           THEN /\ trk' = trk
                /\ trkCall' = [NoTrkCall EXCEPT
                                 !.op = "move", !.x = x, !.y = y,
                                 !.time = time, !.before = trk,
                                 !.sampleAt = trkCall.sampleAt]
           ELSE /\ trk' = UpdateToClientPos(trk, x, y, time, time)
                /\ trkCall' = [NoTrkCall EXCEPT
                                 !.op = "move", !.x = x, !.y = y,
                                 !.time = time, !.before = trk,
                                 !.notified = TRUE, !.sampleAt = time]

\* mouseleave and resize (main.js:275-283)
TrkUnknown(gap) ==
    /\ UNCHANGED <<engVars, ctlVars, sides>>
    /\ trkOps < MaxTrkOps
    /\ trkOps' = trkOps + 1
    /\ LET time == trkCall.time + gap
       IN  /\ trk' = UpdateToUnknown(trk, time, time)
           /\ trkCall' = [NoTrkCall EXCEPT
                            !.op = "unknown", !.time = time, !.before = trk,
                            !.notified = TRUE, !.sampleAt = time]

\* velX(now) and velY(now) (main.js:151-164)
TrkVel(gap) ==
    /\ UNCHANGED <<engVars, ctlVars, sides>>
    /\ trkOps < MaxTrkOps
    /\ trkOps' = trkOps + 1
    /\ trk' = trk
    /\ LET time == trkCall.time + gap
       IN  trkCall' = [NoTrkCall EXCEPT
                        !.op = "vel", !.time = time, !.before = trk,
                        !.sampleAt = trkCall.sampleAt,
                        !.out = <<TrackerVelX(trk, time),
                                  TrackerVelY(trk, time)>>]

(***************************************************************************)
(* The host's timers: setInterval / clearInterval, setTimeout /            *)
(* clearTimeout.  A timer stays live until it is cleared (or, a timeout,   *)
(* until it fires), whether or not the program still holds its id.         *)
(***************************************************************************)

\* undefined, as a timer id (main.js:709, 720): real ids are positive
NoTimer == 0

\* a fresh id: the smallest one that is not live
FreshId(ids) == CHOOSE i \in 1 .. (Cardinality(ids) + 1) : i \notin ids

(***************************************************************************)
(* MovingButton (main.js:669-994).  The controller is a record c of its    *)
(* fields (the tracker mt and the engines motionX, motionY among them),    *)
(* of the host's live timers (intervals, timeouts), and of what the        *)
(* running callback did: err (an exception left it), gave (it called       *)
(* _giveVel), tested (it ran the hit test).                                *)
(***************************************************************************)

\* the button's width and height (main.js:694)
BtnWidth == 2

BtnHeight == 2

\* horzBound and vertBound (main.js:697-700)
HorzBound == 6

VertBound == 6

\* the arguments of the two engines (main.js:705-706)
HalfReboundVel == 1000

Accel == 25

\* _thickner (main.js:711)
Thickner == 2

\* _hitWidth, _hitHeight (main.js:712-713)
HitWidth == BtnWidth + (2 * Thickner)

HitHeight == BtnHeight + (2 * Thickner)

\* the speed given by a click (main.js:775), px/s
ClickSpeed == 4000

\* the delay of the alert timeout (main.js:783), ms
AlertTime == 1000

\* the period of the motion interval (main.js:992), ms
TickInterval == 10

\* min of _minVel (main.js:849) and min of _detectHit (main.js:907), px/s
MinAxisVel == 20

MinHitVel == 30

\* the factor of the depth in the push away from the mouse (main.js:923)
DepthFactor == 10

\* Math.round(a / 2) for a >= 0 (main.js:702-703, 939, 945)
RoundHalf(a) == (a + 1) \div 2

\* Math.sqrt((x * x) + (y * y)) in thousandths, for small x and y
Hypot1000(x, y) == Sqrt(((x * x) + (y * y)) * RatioScale * RatioScale)

\* the constructor (main.js:685-727)
NewButton ==
    [ mt |-> NewTracker,
      motionX |-> SetPos(NewMotion(HorzBound, HalfReboundVel, Accel),
                         RoundHalf(HorzBound)),
      motionY |-> SetPos(NewMotion(VertBound, HalfReboundVel, Accel),
                         RoundHalf(VertBound)),
      leftPos |-> RoundHalf(HorzBound), topPos |-> RoundHalf(VertBound),
      motionIntervalID |-> NoTimer, alertTimeoutID |-> NoTimer,
      hit |-> FALSE, hitImmune |-> FALSE,
      intervals |-> {}, timeouts |-> {},
      err |-> FALSE, gave |-> "none", tested |-> FALSE ]

\* an uncaught exception ends the callback where it is
Throw(c) == [c EXCEPT !.err = TRUE]

\* clearInterval(id) then setInterval (main.js:986-992)
RestartInterval(c) ==
    LET live == c.intervals \ {c.motionIntervalID}
        id == FreshId(live)
    IN  [c EXCEPT !.intervals = live \cup {id}, !.motionIntervalID = id]

\* _giveVel without the clearInterval
GiveVelKeepInterval(c, velX, velY, time, why) ==
    LET id == FreshId(c.intervals)
    IN  [c EXCEPT !.motionX = SetVel(SetPos(c.motionX, c.leftPos), time, velX),
                  !.motionY = SetVel(SetPos(c.motionY, c.topPos), time, velY),
                  !.intervals = c.intervals \cup {id},
                  !.motionIntervalID = id, !.gave = why]

\* _giveVel passing each engine the rendered position of the other axis
GiveVelSwappedPos(c, velX, velY, time, why) ==
    IF ~SetPosOk(c.motionX, c.topPos) \/ ~SetPosOk(c.motionY, c.leftPos)
    THEN Throw(c)
    ELSE RestartInterval(
           [c EXCEPT
              !.motionX = SetVel(SetPos(c.motionX, c.topPos), time, velX),
              !.motionY = SetVel(SetPos(c.motionY, c.leftPos), time, velY),
              !.gave = why])

\* _giveVel (main.js:975-993); time is now / 1000 held in ms
GiveVel(c, velX, velY, time, why) ==
    IF ~SetPosOk(c.motionX, c.leftPos) THEN Throw(c)
    ELSE IF ~SetPosOk(c.motionY, c.topPos)
    THEN Throw([c EXCEPT !.motionX = SetPos(c.motionX, c.leftPos)])
    ELSE IF ~SetVelOk(c.motionX, time, velX)
    THEN Throw([c EXCEPT !.motionX = SetPos(c.motionX, c.leftPos),
                         !.motionY = SetPos(c.motionY, c.topPos)])
    ELSE IF ~SetVelOk(c.motionY, time, velY)
    THEN Throw([c EXCEPT
                  !.motionX = SetVel(SetPos(c.motionX, c.leftPos), time, velX),
                  !.motionY = SetPos(c.motionY, c.topPos)])
    ELSE RestartInterval(
           [c EXCEPT
              !.motionX = SetVel(SetPos(c.motionX, c.leftPos), time, velX),
              !.motionY = SetVel(SetPos(c.motionY, c.topPos), time, velY),
              !.gave = why])

\* the unit vector towards the point
GetUnitVecToward(posX, posY, dir) ==
    LET mag == Hypot1000(posX, posY)
    IN  IF ~(mag > 0)
        THEN [x |-> -dir[1], y |-> -dir[2]]
        ELSE [x |-> RoundDiv(posX * RatioScale * RatioScale, mag),
              y |-> RoundDiv(posY * RatioScale * RatioScale, mag)]

\* _getUnitVecAwayFrom (main.js:738-748), in thousandths; dir is the random
\* direction <<cos(ang), sin(ang)>> taken when the offset is zero
GetUnitVecAwayFrom(posX, posY, dir) ==
    LET mag == Hypot1000(posX, posY)
    IN  IF ~(mag > 0)
        THEN [x |-> -dir[1], y |-> -dir[2]]
        ELSE [x |-> -RoundDiv(posX * RatioScale * RatioScale, mag),
              y |-> -RoundDiv(posY * RatioScale * RatioScale, mag)]

\* a speed times a component of a unit vector
Scaled(speed, unit) == RoundDiv(speed * unit, RatioScale)

\* the offset of a click from the centre of the hit area (main.js:757-768);
\* the button's rect is at the origin plus its left and top position
ClickOffset(c, clientX, clientY) ==
    IF clientX = 0 /\ clientY = 0
    THEN [x |-> 0, y |-> 0]
    ELSE [x |-> (clientX - (OriginX + c.leftPos) + Thickner)
                  - RoundDiv(HitWidth, 2),
          y |-> (clientY - (OriginY + c.topPos) + Thickner)
                  - RoundDiv(HitHeight, 2)]

\* _clicked without the clearTimeout
ClickedNoClear(c, clientX, clientY, time, dir) ==
    LET off == ClickOffset(c, clientX, clientY)
        vec == GetUnitVecAwayFrom(off.x, off.y, dir)
        c1 == GiveVel([c EXCEPT !.hitImmune = TRUE],
                      Scaled(ClickSpeed, vec.x), Scaled(ClickSpeed, vec.y),
                      time, "activation")
        id == FreshId({t.id : t \in c1.timeouts})
    IN  IF c1.err THEN c1
        ELSE [c1 EXCEPT
                !.timeouts = c1.timeouts
                               \cup {[id |-> id, due |-> time + AlertTime]},
                !.alertTimeoutID = id]

\* _clicked (main.js:750-784)
Clicked(c, clientX, clientY, time, dir) ==
    LET off == ClickOffset(c, clientX, clientY)
        vec == GetUnitVecAwayFrom(off.x, off.y, dir)
        c1 == GiveVel([c EXCEPT !.hitImmune = TRUE],
                      Scaled(ClickSpeed, vec.x), Scaled(ClickSpeed, vec.y),
                      time, "activation")
        live == {t \in c1.timeouts : t.id # c1.alertTimeoutID}
        id == FreshId({t.id : t \in live})
    IN  IF c1.err THEN c1
        ELSE [c1 EXCEPT
                !.timeouts = live \cup {[id |-> id, due |-> time + AlertTime]},
                !.alertTimeoutID = id]

\* _alertEnd leaving the handle of the timeout as it was
AlertEndKeepsHandle(c) == [c EXCEPT !.hitImmune = FALSE]

\* _alertEnd (main.js:729-736)
AlertEnd(c) == [c EXCEPT !.alertTimeoutID = NoTimer, !.hitImmune = FALSE]

\* _entrySides with strict comparisons
EntrySidesStrict(x, y, vX, vY) ==
    IF vX = 0 \/ vY = 0
    THEN [horizontal |-> (vY = 0), vertical |-> (vX = 0)]
    ELSE LET lhs == Abs(vX) * (IF vY > 0 THEN y ELSE HitHeight - y)
             rhs == Abs(vY) * (IF vX > 0 THEN x ELSE HitWidth - x)
         IN  [horizontal |-> (lhs > rhs), vertical |-> (lhs < rhs)]

\* _entrySides (main.js:786-846)
EntrySides(x, y, vX, vY) ==
    IF vX = 0 \/ vY = 0
    THEN [horizontal |-> (vY = 0), vertical |-> (vX = 0)]
    ELSE LET lhs == Abs(vX) * (IF vY > 0 THEN y ELSE HitHeight - y)
             rhs == Abs(vY) * (IF vX > 0 THEN x ELSE HitWidth - x)
         IN  [horizontal |-> (lhs >= rhs), vertical |-> (lhs <= rhs)]

\* _minVel leaving a slow velocity as it is
MinVelNone(vel) == vel

\* _minVel (main.js:848-860)
MinVel(vel) ==
    IF Abs(vel) < MinAxisVel
    THEN (IF vel = 0 THEN 0 ELSE IF vel > 0 THEN MinAxisVel ELSE -MinAxisVel)
    ELSE vel

\* the response picking up the whole velocity of the mouse through friction
ResponseVelFullDrag(motion, entered, relVel, mouseVel) ==
    IF entered
    THEN ReboundVel(motion, -relVel) + mouseVel
    ELSE motion.vel + mouseVel

\* the response with the rebound taken of the velocity of the mouse in the
\* frame of the button
ResponseVelNoMinus(motion, entered, relVel, mouseVel) ==
    IF entered
    THEN ReboundVel(motion, relVel) + mouseVel
    ELSE motion.vel + RoundDiv(mouseVel, 2)

\* the velocity before the minimum speeds (main.js:888-903)
ResponseVel(motion, entered, relVel, mouseVel) ==
    IF entered
    THEN ReboundVel(motion, -relVel) + mouseVel
    ELSE motion.vel + RoundDiv(mouseVel, 2)

\* _detectHit without the combined minimum
BoostVelNone(velX, velY, mouseX, mouseY, dir) == <<velX, velY>>

\* the combined minimum (main.js:907-931) on the velocity <<velX, velY>>;
\* the magnitude is compared in thousandths of a px/s, and is not computed
\* for a velocity whose square is over twice that of the minimum
BoostVel(velX, velY, mouseX, mouseY, dir) ==
    LET sq == (velX * velX) + (velY * velY)
        min == MinHitVel
    IN  IF sq > 2 * min * min THEN <<velX, velY>>
        ELSE LET mag == Hypot1000(velX, velY)
             IN  IF mag >= min * RatioScale THEN <<velX, velY>>
                 ELSE IF ~(mag > 0)
                 THEN LET halfWidth == RoundDiv(HitWidth, 2)
                          halfHeight == RoundDiv(HitHeight, 2)
                          posX == mouseX - halfWidth
                          posY == mouseY - halfHeight
                          vec == GetUnitVecAwayFrom(posX, posY, dir)
                          depth == Hypot1000(halfWidth - Abs(posX),
                                             halfHeight - Abs(posY))
                          vel == Max(min, RoundDiv(depth * DepthFactor,
                                                   RatioScale))
                      IN  <<Scaled(vel, vec.x), Scaled(vel, vec.y)>>
                 ELSE LET boost == RoundDiv(min * RatioScale * RatioScale, mag)
                      IN  <<Scaled(velX, boost), Scaled(velY, boost)>>

\* whether the point is known and in the hit area
InHitArea(mouseX, mouseY) ==
    /\ mouseY # NaN /\ mouseX # NaN
    /\ mouseY >= 0 /\ mouseX >= 0
    /\ mouseY <= HitHeight /\ mouseX <= HitWidth

\* the hit test without the immunity
IsHitIgnoringImmunity(c, mouseX, mouseY) == InHitArea(mouseX, mouseY)

\* the hit test (main.js:871-872)
IsHit(c, mouseX, mouseY) ==
    c.hitImmune = FALSE /\ InHitArea(mouseX, mouseY)

\* the velocity given on a hit (main.js:875-931)
HitVel(c, mouseX, mouseY, time, dir) ==
    LET mouseVelX == TrackerVelX(c.mt, time)
        mouseVelY == TrackerVelY(c.mt, time)
        relVelX == mouseVelX - c.motionX.vel
        relVelY == mouseVelY - c.motionY.vel
        entry == EntrySides(mouseX, mouseY, relVelX, relVelY)
        velX == MinVel(ResponseVel(c.motionX, entry.horizontal,
                                   relVelX, mouseVelX))
        velY == MinVel(ResponseVel(c.motionY, entry.vertical,
                                   relVelY, mouseVelY))
    IN  BoostVel(velX, velY, mouseX, mouseY, dir)

\* _detectHit giving a velocity on every test that reports a hit
DetectHitEveryTest(c, time, dir) ==
    LET mouseY == Minus(Minus(c.mt.posY, c.topPos), -Thickner)
        mouseX == Minus(Minus(c.mt.posX, c.leftPos), -Thickner)
        hit == IsHit(c, mouseX, mouseY)
        c0 == [c EXCEPT !.tested = TRUE]
    IN  IF hit
        THEN LET v == HitVel(c, mouseX, mouseY, time, dir)
                 c1 == GiveVel(c0, v[1], v[2], time, "collision")
             IN  IF c1.err THEN c1 ELSE [c1 EXCEPT !.hit = hit]
        ELSE [c0 EXCEPT !.hit = hit]

\* _detectHit (main.js:862-936); time is Date.now()
DetectHit(c, time, dir) ==
    LET mouseY == Minus(Minus(c.mt.posY, c.topPos), -Thickner)
        mouseX == Minus(Minus(c.mt.posX, c.leftPos), -Thickner)
        hit == IsHit(c, mouseX, mouseY)
        c0 == [c EXCEPT !.tested = TRUE]
    IN  IF ~c.hit /\ hit
        THEN LET v == HitVel(c, mouseX, mouseY, time, dir)
                 c1 == GiveVel(c0, v[1], v[2], time, "collision")
             IN  IF c1.err THEN c1 ELSE [c1 EXCEPT !.hit = hit]
        ELSE [c0 EXCEPT !.hit = hit]

\* one axis of _updateMotion (main.js:955-962): <<engine, rendered position>>
UpdateAxis(motion, shown, time) ==
    IF motion.vel # 0
    THEN LET m == Update(motion, time) IN <<m, m.pos>>
    ELSE <<motion, shown>>

\* _updateMotion without the clearInterval
StopIntervalNever(c) == c

\* the end of the motion taken from the horizontal axis alone
StopIntervalOneAxis(c) ==
    IF c.motionX.vel = 0
    THEN [c EXCEPT !.intervals = c.intervals \ {c.motionIntervalID},
                   !.motionIntervalID = NoTimer]
    ELSE c

\* the end of the motion in _updateMotion (main.js:964-970)
StopInterval(c) ==
    IF c.motionX.vel = 0 /\ c.motionY.vel = 0
    THEN [c EXCEPT !.intervals = c.intervals \ {c.motionIntervalID},
                   !.motionIntervalID = NoTimer]
    ELSE c

\* _updateMotion (main.js:950-973); time is Date.now()
UpdateMotion(c, time, dir) ==
    IF (c.motionX.vel # 0 /\ ~UpdateOk(c.motionX, time)) THEN Throw(c)
    ELSE LET x == UpdateAxis(c.motionX, c.leftPos, time)
             c1 == [c EXCEPT !.motionX = x[1], !.leftPos = x[2]]
         IN  IF (c.motionY.vel # 0 /\ ~UpdateOk(c.motionY, time))
             THEN Throw(c1)
             ELSE LET y == UpdateAxis(c.motionY, c.topPos, time)
                      c2 == [c1 EXCEPT !.motionY = y[1], !.topPos = y[2]]
                  IN  DetectHit(StopInterval(c2), time, dir)

(***************************************************************************)
(* The running page: the callbacks the host delivers, one at a time, each  *)
(* running to completion at the clock reading now.                         *)
(***************************************************************************)

\* the number of user events (pointer events and clicks) delivered
MaxInputs == 2

\* client coordinates the pointer visits
Pointers == { <<0, 0>>, <<2, 1>>, <<5, 5>> }

\* the time between a pointer move and the callback before it, ms: within
\* and beyond the life of a velocity sample
MoveGaps == {10, 400}

\* the time between any other user event and the callback before it, ms
EventGaps == {10}

\* how long after the previous callback a tick of the interval runs, ms:
\* the host may run the callback late, and every hundredth period stands
\* for the calls between
TickDelays == {100 * TickInterval}

\* directions <<cos(ang), sin(ang)>> that Math.random() may give, thousandths
RandomDirs == { <<-600, 800>>, <<707, 707>> }

NoLast == [kind |-> "init", pointer |-> FALSE, atZero |-> FALSE,
           offX |-> 0, offY |-> 0, clickTime |-> NaN,
           hadInterval |-> FALSE, hadTimeout |-> FALSE, hadHit |-> FALSE,
           odd |-> FALSE]

\* the record of a callback of the given kind that starts now
Started(kind) ==
    [NoLast EXCEPT !.kind = kind, !.clickTime = last.clickTime,
                   !.odd = last.odd,
                   !.hadInterval = (mb.intervals # {}),
                   !.hadTimeout = (mb.timeouts # {}),
                   !.hadHit = mb.hit]

InitButton ==
    /\ mb = NewButton
    /\ now = 0
    /\ inputs = 0
    /\ last = NoLast

\* the record l of the callback that ends: odd tells whether the number of
\* calls of _giveVel so far is odd
Given(l) == [l EXCEPT !.odd = (last.odd # (mb'.gave # "none"))]

\* the controller as a callback finds it
Fresh(c) == [c EXCEPT !.err = FALSE, !.gave = "none", !.tested = FALSE]

\* mousemove and mouseover (main.js:253-262) at client point <<x, y>>
MouseMove(x, y, gap, dir) ==
    /\ UNCHANGED <<engVars, trkVars, sides>>
    /\ inputs < MaxInputs
    /\ inputs' = inputs + 1
    /\ now' = now + gap
    /\ IF IsDuplicate(mb.mt, x, y)
       THEN mb' = Fresh(mb)
       ELSE mb' = DetectHit(
                    [Fresh(mb) EXCEPT
                       !.mt = UpdateToClientPos(mb.mt, x, y,
                                                now + gap, now + gap)],
                    now + gap, dir)
    /\ last' = Given(Started("move"))

\* mouseleave and resize (main.js:275-283)
MouseLeave(gap, dir) ==
    /\ UNCHANGED <<engVars, trkVars, sides>>
    /\ inputs < MaxInputs
    /\ inputs' = inputs + 1
    /\ now' = now + gap
    /\ mb' = DetectHit(
               [Fresh(mb) EXCEPT
                  !.mt = UpdateToUnknown(mb.mt, now + gap, now + gap)],
               now + gap, dir)
    /\ last' = Given(Started("unknown"))

\* the client points of the button's border box
OnButton(c, x, y) ==
    /\ x >= OriginX + c.leftPos /\ x <= OriginX + c.leftPos + BtnWidth
    /\ y >= OriginY + c.topPos /\ y <= OriginY + c.topPos + BtnHeight

\* where a click at <<x, y>> is from the centre of the hit area
TrueOffset(c, x, y) ==
    [x |-> (x - (OriginX + c.leftPos) + Thickner) - RoundDiv(HitWidth, 2),
     y |-> (y - (OriginY + c.topPos) + Thickner) - RoundDiv(HitHeight, 2)]

\* a click of the pointer on the button at client point <<x, y>>
PointerClick(x, y, gap, dir) ==
    /\ UNCHANGED <<engVars, trkVars, sides>>
    /\ inputs < MaxInputs
    /\ OnButton(mb, x, y)
    /\ inputs' = inputs + 1
    /\ now' = now + gap
    /\ mb' = Clicked(Fresh(mb), x, y, now + gap, dir)
    /\ last' = Given([Started("click") EXCEPT
                        !.pointer = TRUE, !.atZero = (x = 0 /\ y = 0),
                        !.offX = TrueOffset(mb, x, y).x,
                        !.offY = TrueOffset(mb, x, y).y,
                        !.clickTime = now + gap])

\* a click from the keyboard: the event carries the client point <<0, 0>>
KeyClick(gap, dir) ==
    /\ UNCHANGED <<engVars, trkVars, sides>>
    /\ inputs < MaxInputs
    /\ inputs' = inputs + 1
    /\ now' = now + gap
    /\ mb' = Clicked(Fresh(mb), 0, 0, now + gap, dir)
    /\ last' = Given([Started("click") EXCEPT
                        !.atZero = TRUE, !.clickTime = now + gap])

\* a live interval runs _updateMotion
Tick(delay, dir) ==
    /\ UNCHANGED <<engVars, trkVars, sides>>
    /\ mb.intervals # {}
    /\ now' = now + delay
    /\ inputs' = inputs
    /\ mb' = UpdateMotion(Fresh(mb), now + delay, dir)
    /\ last' = Given(Started("tick"))

\* a live timeout runs _alertEnd, not before it is due
AlertEndFires(t) ==
    /\ UNCHANGED <<engVars, trkVars, sides>>
    /\ t \in mb.timeouts
    /\ now' = Max(now, t.due)
    /\ inputs' = inputs
    /\ mb' = AlertEnd([Fresh(mb) EXCEPT !.timeouts = mb.timeouts \ {t}])
    /\ last' = Given(Started("alertEnd"))

Ticks == \E delay \in TickDelays, dir \in RandomDirs : Tick(delay, dir)

AlertEnds == \E t \in mb.timeouts : AlertEndFires(t)

\* the random directions a callback can use: one stands for all of them
\* when the offset is not zero, since the direction is then not read
DirsFor(offX, offY) ==
    IF offX = 0 /\ offY = 0 THEN RandomDirs
    ELSE {CHOOSE d \in RandomDirs : TRUE}

\* where the client point <<x, y>> is from the centre of the hit area
CentreOffset(c, x, y) == TrueOffset(c, x, y)

Next ==
    \/ \E p \in Pointers, gap \in MoveGaps :
          \E dir \in DirsFor(CentreOffset(mb, p[1], p[2]).x,
                             CentreOffset(mb, p[1], p[2]).y) :
             MouseMove(p[1], p[2], gap, dir)
    \/ \E gap \in EventGaps : MouseLeave(gap, CHOOSE d \in RandomDirs : TRUE)
    \/ \E p \in Pointers, gap \in EventGaps :
          \E dir \in DirsFor(ClickOffset(mb, p[1], p[2]).x,
                             ClickOffset(mb, p[1], p[2]).y) :
             PointerClick(p[1], p[2], gap, dir)
    \/ \E gap \in EventGaps, dir \in RandomDirs : KeyClick(gap, dir)
    \/ Ticks
    \/ AlertEnds

\* positions in the hit area and velocities of the pointer in the frame of
\* the button that _entrySides is called with
SidesVels == {-300, -8, 0, 8, 300}

InitSides ==
    sides = [x |-> NaN, y |-> NaN, vX |-> NaN, vY |-> NaN,
             out |-> [horizontal |-> FALSE, vertical |-> FALSE]]

\* this._entrySides(x, y, vX, vY): a pure function of its arguments and of
\* the size of the hit area
EntrySidesCall(x, y, vX, vY) ==
    /\ UNCHANGED <<engVars, ctlVars, trkVars>>
    /\ sides' = [x |-> x, y |-> y, vX |-> vX, vY |-> vY,
                 out |-> EntrySides(x, y, vX, vY)]

Init ==
    /\ InitButton /\ InitEngine(<<HorzBound, HalfReboundVel, Accel>>)
    /\ InitTracker /\ InitSides

Spec == Init /\ [][Next]_vars

\* Ticks can take a step exactly when an interval is live: its other
\* conjuncts are assignments, and it advances the clock
TicksEnabled == mb.intervals # {}

\* The browser keeps calling a live interval and calls a pending timeout:
\* weak fairness of Ticks and of AlertEnds.  That of Ticks is written out,
\* WF_vars(Ticks) being []<>~ENABLED <<Ticks>>_vars \/ []<><<Ticks>>_vars.
FairSpec ==
    /\ Spec
    /\ ([]<>~TicksEnabled \/ []<><<Ticks>>_vars)
    /\ WF_vars(AlertEnds)

\* one more client point the pointer visits: in the hit area of the button
\* where it starts, nearer to one side of it than to the other
FarPointers == { <<3, 2>> }

\* the page with the pointer visiting the points of FarPointers as well
NextHit ==
    \/ Next
    \/ \E p \in FarPointers, gap \in MoveGaps :
          \E dir \in DirsFor(CentreOffset(mb, p[1], p[2]).x,
                             CentreOffset(mb, p[1], p[2]).y) :
             MouseMove(p[1], p[2], gap, dir)

SpecHit == Init /\ [][NextHit]_vars

NextMotion ==
    \/ \E p \in EngPositions(eng) : EngSetPos(p)
    \/ \E a \in SetVelArgs : EngSetVel(a[1], a[2])
    \/ \E t \in EngTimes : EngUpdate(t)
    \/ \E v \in EngVels : EngRebound(v)

InitMotion ==
    /\ InitButton /\ \E p \in EngineParams : InitEngine(p)
    /\ InitTracker /\ InitSides

SpecMotion == InitMotion /\ [][NextMotion]_vars

\* a time at which the engine is polled as well: shortly before the time
\* computed for a first hit of the fastest particle
PollTimes == {30}

\* the stand-alone engine, polled at the times of PollTimes as well
NextPoll ==
    \/ NextMotion
    \/ \E t \in PollTimes : EngUpdate(t)

SpecPoll == InitMotion /\ [][NextPoll]_vars

NextTracker ==
    \/ \E p \in TrkPointers, gap \in TrkGaps : TrkMove(p[1], p[2], gap)
    \/ \E gap \in TrkGaps : TrkUnknown(gap)
    \/ \E gap \in TrkGaps : TrkVel(gap)

SpecTracker == Init /\ [][NextTracker]_vars

NextSides ==
    \E x \in 0 .. HitWidth, y \in 0 .. HitHeight :
       \E vX \in SidesVels, vY \in SidesVels : EntrySidesCall(x, y, vX, vY)

SpecSides == Init /\ [][NextSides]_vars

(***************************************************************************)
(* The engine's claims, under SpecMotion.                                  *)
(***************************************************************************)

\* C1: once setPos has succeeded, the reported pos is within [0, upperPos]
\* after every setPos, setVel and update, whatever the times passed and
\* however many boundaries one update crosses.
C1_PosWithinBounds ==
    call.posSet => (eng.pos # NaN /\ eng.pos >= 0 /\ eng.pos <= eng.upperPos)

\* an update that replaced the trajectory more than once
C1_Witness ==
    call.posSet /\ call.op = "update" /\ call.res = "ok" /\ call.replaced >= 2

\* C9 as stated: reboundVel(0) = 0, reboundVel(-v) = -reboundVel(v), and for
\* v # 0 the result has the opposite sign and a strictly smaller magnitude.
C9_Original ==
    call.op = "reboundVel" =>
        /\ (call.arg = 0 => call.out = 0)
        /\ ReboundVel(eng, -call.arg) = -call.out
        /\ (call.arg # 0 =>
              /\ Sign(call.out) = -Sign(call.arg)
              /\ Abs(call.out) < Abs(call.arg))

\* C9 as amended: reboundVel(0) = 0, reboundVel(-v) = -reboundVel(v), and for
\* v # 0 the result never has the sign of v and never a larger magnitude
\* (a v so small that abs(v) / halfReboundVel is lost in the + 1 comes back
\* with its whole magnitude).
C9_ReboundNoLarger ==
    call.op = "reboundVel" =>
        /\ (call.arg = 0 => call.out = 0)
        /\ ReboundVel(eng, -call.arg) = -call.out
        /\ (call.arg # 0 =>
              /\ Sign(call.out) # Sign(call.arg)
              /\ Abs(call.out) <= Abs(call.arg))

\* a velocity that comes back reversed and damped
C9_Witness ==
    /\ call.op = "reboundVel" /\ call.arg > eng.halfReboundVel
    /\ call.out < 0 /\ 2 * Abs(call.out) < call.arg

\* C10 as stated: update(time) fails with a RangeError whenever time
\* precedes the time of the most recent setVel or successful update.
C10_Original ==
    (call.op = "update" /\ call.lastBefore # NaN /\ call.time < call.lastBefore)
        => call.res = "RangeError"

\* C10 as amended: update(time) fails with a RangeError exactly when time
\* precedes the origin time of the current trajectory (the time of the last
\* setVel, advanced by the hit time of each boundary crossed since), or no
\* velocity was ever set; a time before the last update is accepted.
C10_RangeErrorBeforeOrigin ==
    call.op = "update" =>
        (call.res = "RangeError" <=>
            (call.startBefore = NaN \/ call.time < call.startBefore))

\* an update refused for a time before the origin of the trajectory
C10_Witness ==
    /\ call.op = "update" /\ call.res = "RangeError"
    /\ call.startBefore # NaN /\ call.time < call.startBefore

\* a number that is neither NaN nor an infinity
Finite(a) == a # NaN /\ a # Infinity /\ a # -Infinity

\* C11: setPos(p) with p outside [0, upperPos] and setVel(time, v) with a
\* time or a v that is not finite raise an error and leave every field of
\* the engine as it was; a p within [0, upperPos], both ends included, and
\* a finite time and v are accepted and stored.
C11_SettersCheckArguments ==
    [][/\ (call'.op = "setPos" =>
             IF call'.arg >= 0 /\ call'.arg <= eng.upperPos
             THEN /\ call'.res = "ok"
                  /\ eng'.pos = call'.arg /\ eng'.initPos = call'.arg
             ELSE call'.res = "RangeError" /\ eng' = eng)
       /\ (call'.op = "setVel" =>
             IF Finite(call'.time) /\ Finite(call'.arg)
             THEN /\ call'.res = "ok"
                  /\ eng'.trajStartGlobalTime = call'.time
                  /\ eng'.initVel = call'.arg /\ eng'.vel = call'.arg
             ELSE call'.res = "RangeError" /\ eng' = eng)
      ]_vars

\* a setVel refused for its velocity by an engine that was moving, after a
\* setPos at the upper boundary was accepted
C11_Witness ==
    /\ call.op = "setVel" /\ call.res = "RangeError" /\ call.arg = NaN
    /\ Finite(call.time) /\ eng.vel # 0 /\ eng.pos = eng.upperPos
    /\ eng.initPos = eng.upperPos

\* C22: whenever update crosses a boundary, the trajectory that replaces
\* the current one has its origin position at the boundary crossed (0 or
\* upperPos), its origin time advanced by the hit time, and its origin
\* velocity equal to reboundVel of the velocity at the hit, which is
\* directed into the interval (not negative at 0, not positive at upperPos).
\* The engine is left on the last of these trajectories.
C22_ReplacingTrajectory ==
    (call.op = "update" /\ call.res = "ok") =>
        /\ \A i \in 1 .. Len(call.hits) :
              LET h == call.hits[i]
                  before == IF i = 1 THEN call.startBefore
                            ELSE call.hits[i - 1].trajStartGlobalTime
              IN  /\ h.pos < 0 \/ h.pos > eng.upperPos
                  /\ h.initPos = (IF h.pos < 0 THEN 0 ELSE eng.upperPos)
                  /\ h.hitTime >= 0
                  /\ h.startBefore = before
                  /\ h.trajStartGlobalTime = before + h.hitTime
                  /\ h.trajStartGlobalTime <= call.time
                  /\ h.initVel = ReboundVel(eng, h.hitVel)
                  /\ (h.initPos = 0 => h.initVel >= 0)
                  /\ (h.initPos = eng.upperPos => h.initVel <= 0)
        /\ call.hits # <<>> =>
              LET h == call.hits[Len(call.hits)]
              IN  /\ eng.initPos = h.initPos /\ eng.initVel = h.initVel
                  /\ eng.trajStartGlobalTime = h.trajStartGlobalTime

\* (At the resolution of the model the velocity at a hit taken at the time
\* the particle stops is exactly zero; in doubles it is zero up to the
\* rounding of abs(initVel) / accel.)
\*
\* an update that crossed the upper boundary and then the lower one
C22_Witness ==
    /\ call.op = "update" /\ call.res = "ok" /\ Len(call.hits) >= 2
    /\ call.hits[1].initPos = eng.upperPos /\ call.hits[1].initVel < 0
    /\ call.hits[2].initPos = 0 /\ call.hits[2].initVel > 0
    /\ call.hits[2].hitTime > 0

ReportedRest ==
    /\ call.posSet /\ call.res = "ok" /\ eng.vel = 0
    /\ \/ call.op = "update"
       \/ call.op = "setVel" /\ eng.pos = eng.initPos

C25_Original ==
    [][(call'.op = "setVel" /\ call'.res = "ok" /\ call'.posSet) =>
          /\ eng'.pos = eng.pos
          /\ UpdateOk(eng', call'.time)
          /\ Update(eng', call'.time).pos = eng.pos
          /\ Update(eng', call'.time).vel = call'.arg
      ]_vars

\* C25 as amended: setVel(time, v) starts a trajectory at the time given,
\* with the velocity v, at the origin position the engine has: the position
\* of the last setPos, or the boundary that the last update crossed last.
\* It changes neither pos nor that origin position, and update(time)
\* directly after it reports the vel v and the origin position, which is
\* the pos of before setVel unless an update has moved the particle since.
C25_SetVelOrigin ==
    [][(call'.op = "setVel" /\ call'.res = "ok" /\ call'.posSet) =>
          /\ eng'.pos = eng.pos /\ eng'.initPos = eng.initPos
          /\ UpdateOk(eng', call'.time)
          /\ Update(eng', call'.time).pos = eng.initPos
          /\ Update(eng', call'.time).vel = call'.arg
          /\ (eng.pos = eng.initPos =>
                Update(eng', call'.time).pos = eng.pos)
      ]_vars

\* a setVel on a particle that an update has moved off its origin position
C25_Witness ==
    /\ call.op = "setVel" /\ call.res = "ok" /\ call.posSet
    /\ call.lastBefore # NaN /\ call.time > call.lastBefore
    /\ eng.pos # eng.initPos /\ eng.vel # 0
    /\ eng.trajStartGlobalTime = call.time

\* C26: an update at a time not before the trajectory origin, on an engine
\* whose position and velocity are set, returns normally after a finite
\* number of trajectory replacements and reports a position within the
\* boundaries.  In every replacement the hit time used lies in [0, t], t
\* being the time left on the trajectory: it is the computed hit time when
\* that lies in [0, t], and t otherwise, and the diagnostic is logged exactly
\* when some computed hit time was replaced.  The origin never moves past
\* the time of the update.
C26_UpdateReturns ==
    (/\ call.op = "update" /\ call.posSet
     /\ call.startBefore # NaN /\ call.time >= call.startBefore) =>
        /\ call.res = "ok"
        /\ Len(call.hits) = call.replaced
        /\ \A i \in 1..Len(call.hits) :
              LET hit == call.hits[i]
                  inRange == /\ hit.computed # NaN /\ hit.computed >= 0
                             /\ hit.computed <= hit.trajTime
              IN  /\ hit.trajTime >= 0
                  /\ hit.hitTime >= 0 /\ hit.hitTime <= hit.trajTime
                  /\ hit.hitTime = IF inRange THEN hit.computed
                                   ELSE hit.trajTime
        /\ call.diag <=>
              \E i \in 1..Len(call.hits) :
                  \/ call.hits[i].computed = NaN
                  \/ call.hits[i].computed < 0
                  \/ call.hits[i].computed > call.hits[i].trajTime
        /\ eng.trajStartGlobalTime <= call.time
        /\ eng.pos >= 0 /\ eng.pos <= eng.upperPos

\* an update that replaced a computed hit time beyond the time left, logged
\* the diagnostic and returned
C26_Witness ==
    /\ call.op = "update" /\ call.res = "ok" /\ call.posSet
    /\ call.diag /\ Len(call.hits) >= 1
    /\ \E i \in 1..Len(call.hits) :
          /\ call.hits[i].computed > call.hits[i].trajTime
          /\ call.hits[i].hitTime = call.hits[i].trajTime

\* the last call reported a velocity and the step is an accepted update at a
\* time not before it, or an accepted update while only updates at times
\* that never decreased were accepted since the last setVel
NextUpdateInOrder ==
    /\ call'.op = "update" /\ call'.res = "ok"
    /\ \/ call'.polling
       \/ /\ call.res = "ok" /\ call.op \in {"setVel", "update"}
          /\ call'.time >= call.time

C12_VelocityExpires ==
    trkCall.op = "vel" =>
        trkCall.out =
            IF trkCall.sampleAt = NaN
                 \/ trkCall.time - trkCall.sampleAt > SampleExpireTime
            THEN <<0, 0>>
            ELSE <<trk.velX, trk.velY>>

\* a stored velocity read as 0 just after its sample expired
C12_Witness ==
    /\ trkCall.op = "vel" /\ trk.velX # 0 /\ trk.velY # 0
    /\ trkCall.time - trkCall.sampleAt = SampleExpireTime + 1
    /\ trkCall.out = <<0, 0>>

\* C13: a move or over event at the client point of the last accepted
\* sample changes nothing in the tracker (velocity, position, timestamp of
\* the last event, time of the sample) and does not call the position
\* handler.
C13_DuplicateIgnored ==
    (/\ trkCall.op = "move"
     /\ trkCall.x = trkCall.before.clientX
     /\ trkCall.y = trkCall.before.clientY)
        => (trk = trkCall.before /\ ~trkCall.notified)

\* a second event at the same point, later, with the pointer in motion
C13_Witness ==
    /\ trkCall.op = "move" /\ trkCall.x = trkCall.before.clientX
    /\ trkCall.y = trkCall.before.clientY
    /\ trkCall.time > trk.lastTimeStamp /\ trk.velX # 0

\* C14 as stated: a leave or resize sets the position to unknown and leaves
\* the stored velocity on each axis at the value it had before the event.
C14_Original ==
    trkCall.op = "unknown" =>
        /\ trk.posX = NaN /\ trk.posY = NaN
        /\ trk.velX = trkCall.before.velX /\ trk.velY = trkCall.before.velY

\* C14 as amended: a leave or resize sets the position to unknown and sets
\* the stored velocity on each axis to 0 (the displacement is not finite),
\* and calls the position handler.
C14_UnknownResetsVelocity ==
    trkCall.op = "unknown" =>
        /\ trk.posX = NaN /\ trk.posY = NaN
        /\ trk.velX = 0 /\ trk.velY = 0
        /\ trkCall.notified

\* a leave or resize that found a pointer in motion
C14_Witness ==
    /\ trkCall.op = "unknown" /\ trkCall.before.velX # 0
    /\ trkCall.before.velY # 0 /\ trkCall.before.posX # NaN

\* the velocity C15 gives for the current one c, the displacement d and the
\* time dt since the last event
BlendedVel(c, d, dt) ==
    IF d = NaN \/ dt = NaN \/ dt = 0 THEN 0
    ELSE LET r == RoundDiv(d * MsPerSec, dt)
         IN  IF dt > SampleExpireTime THEN r
             ELSE IF c = 0 \/ (r < 0 /\ c > 0) \/ (r > 0 /\ c < 0) THEN r
             ELSE RoundDiv(c + r, 2)

\* C15: an accepted move or over event with displacement d after time dt,
\* r = d / dt * 1000 and current velocity c leaves on each axis 0 if r is
\* not finite, else r if dt is over SampleExpireTime, else r if c is 0 or r
\* and c have strictly opposite signs, else (c + r) / 2.
C15_VelocityBlend ==
    (trkCall.op = "move" /\ trkCall.notified) =>
        LET dt == Minus(trkCall.time, trkCall.before.lastTimeStamp)
        IN  /\ trk.velX = BlendedVel(trkCall.before.velX,
                                     Minus(trkCall.x, trkCall.before.clientX),
                                     dt)
            /\ trk.velY = BlendedVel(trkCall.before.velY,
                                     Minus(trkCall.y, trkCall.before.clientY),
                                     dt)

\* an event 10 ms after the last one that averaged a faster displacement
\* into the velocity of both axes
C15_Witness ==
    /\ trkCall.op = "move" /\ trkCall.notified
    /\ trkCall.time - trkCall.before.lastTimeStamp = 10
    /\ trkCall.before.velX > 0 /\ trk.velX > trkCall.before.velX
    /\ 2 * trk.velX = trkCall.before.velX
                         + ((trkCall.x - trkCall.before.clientX) * 100)
    /\ trkCall.before.velY > 0 /\ trk.velY > trkCall.before.velY

(***************************************************************************)
(* The controller's claims, under Spec and FairSpec.                       *)
(***************************************************************************)

Moving == mb.motionX.vel # 0 \/ mb.motionY.vel # 0

AtRest ==
    /\ mb.motionX.vel = 0 /\ mb.motionY.vel = 0
    /\ mb.intervals = {} /\ mb.motionIntervalID = NoTimer

\* the pointer, in the coordinates of the hit area
MouseX == Minus(Minus(mb.mt.posX, mb.leftPos), -Thickner)

MouseY == Minus(Minus(mb.mt.posY, mb.topPos), -Thickner)

\* C2: while the interval keeps firing, a moving button comes to rest (both
\* velocities 0, the interval cleared) unless a later collision or click
\* gives it a new velocity first, and it stays at rest until one does.
C2_EventuallyRests ==
    /\ \A b \in BOOLEAN :
          (Moving /\ last.odd = b) ~> (AtRest \/ last.odd # b)
    /\ [][(AtRest /\ mb'.gave = "none") => AtRest']_vars

\* a tick that brought a moving button to rest
C2_Witness == last.kind = "tick" /\ last.hadInterval /\ AtRest

\* C3: at most one interval and at most one timeout are live, and they are
\* the ones the controller holds the ids of.
C3_OneTimerOfEachKind ==
    /\ Cardinality(mb.intervals) <= 1
    /\ Cardinality(mb.timeouts) <= 1
    /\ mb.intervals = (IF mb.motionIntervalID = NoTimer THEN {}
                       ELSE {mb.motionIntervalID})
    /\ {t.id : t \in mb.timeouts} = (IF mb.alertTimeoutID = NoTimer THEN {}
                                     ELSE {mb.alertTimeoutID})

\* a click that found both timers live and replaced them
C3_Witness ==
    /\ last.kind = "click" /\ last.hadInterval /\ last.hadTimeout
    /\ Cardinality(mb.intervals) = 1 /\ Cardinality(mb.timeouts) = 1

\* C4: between callbacks the interval is live exactly when a velocity is
\* not zero.
C4_IntervalIffMoving == (mb.intervals # {}) <=> Moving

\* a tick that left one axis at rest and the other moving
C4_Witness ==
    /\ last.kind = "tick" /\ mb.intervals # {}
    /\ (mb.motionX.vel = 0) # (mb.motionY.vel = 0)

\* C5: a callback that starts with the immunity set reports no hit and gives
\* no velocity unless it is a click: a pointer event leaves both engines as
\* they were, a tick leaves them as their update left them.
C5_NoHitWhileImmune ==
    [][(mb.hitImmune /\ last'.kind \in {"move", "unknown", "tick"}) =>
          /\ (mb'.tested => ~mb'.hit) /\ mb'.gave = "none"
          /\ (last'.kind # "tick" =>
                mb'.motionX = mb.motionX /\ mb'.motionY = mb.motionY)
          /\ (last'.kind = "tick" =>
                /\ mb'.motionX = UpdateAxis(mb.motionX, mb.leftPos, now')[1]
                /\ mb'.motionY = UpdateAxis(mb.motionY, mb.topPos, now')[1])
      ]_vars

\* a hit test run under immunity with the pointer in the hit area
C5_Witness == mb.hitImmune /\ mb.tested /\ InHitArea(MouseX, MouseY)

\* C6: a hit test run while the pointer position is unknown reports no hit,
\* gives no velocity and raises nothing.
C6_UnknownNeverHits ==
    (mb.tested /\ (last.kind = "unknown" \/ mb.mt.posX = NaN
                                         \/ mb.mt.posY = NaN))
        => (~mb.hit /\ mb.gave = "none" /\ ~mb.err)

\* a leave or resize that turned the hit flag off
C6_Witness ==
    last.kind = "unknown" /\ last.hadHit /\ mb.tested /\ mb.mt.posX = NaN

\* C7: a click sets the immunity; only the alert timeout clears it, not
\* before AlertTime has passed since the last click; while it is set the
\* timeout of the last click is the one pending; and it is cleared in the end.
C7_ImmunityCooldown ==
    /\ [][(last'.kind = "click" /\ ~mb'.err) => mb'.hitImmune]_vars
    /\ [][(mb.hitImmune /\ ~mb'.hitImmune) =>
             (last'.kind = "alertEnd" /\ now' >= last'.clickTime + AlertTime)
         ]_vars
    /\ [](mb.hitImmune =>
             {t.due : t \in mb.timeouts} = {last.clickTime + AlertTime})
    /\ (mb.hitImmune ~> ~mb.hitImmune)

\* a click during the cooldown of the click before it
C7_Witness ==
    /\ last.kind = "click" /\ last.hadTimeout /\ mb.hitImmune
    /\ {t.due : t \in mb.timeouts} = {now + AlertTime}

\* the speed is ClickSpeed, to the px/s
HasClickSpeed(velX, velY) ==
    LET sq == (velX * velX) + (velY * velY)
    IN  /\ sq >= (ClickSpeed - 1) * (ClickSpeed - 1)
        /\ sq <= (ClickSpeed + 1) * (ClickSpeed + 1)

\* the velocity does not point towards the offset on either axis
PointsAway(velX, velY, offX, offY) ==
    /\ (velX = 0 \/ Sign(velX) = -Sign(offX))
    /\ (velY = 0 \/ Sign(velY) = -Sign(offY))

\* C8 as stated: a click leaves a velocity of magnitude ClickSpeed that
\* points away from the clicked point, whatever the point.
C8_Original ==
    (last.kind = "click" /\ ~mb.err) =>
        /\ HasClickSpeed(mb.motionX.vel, mb.motionY.vel)
        /\ ((last.offX # 0 \/ last.offY # 0) =>
              PointsAway(mb.motionX.vel, mb.motionY.vel, last.offX, last.offY))

\* C8 as amended: a click leaves a velocity of magnitude ClickSpeed; it
\* points away from the clicked point unless the event carries the client
\* point (0, 0), which is taken for a keyboard click and sent in a random
\* direction like a click on the exact centre.
C8_ClickVelocity ==
    (last.kind = "click" /\ ~mb.err) =>
        /\ HasClickSpeed(mb.motionX.vel, mb.motionY.vel)
        /\ ((~last.atZero /\ (last.offX # 0 \/ last.offY # 0)) =>
              PointsAway(mb.motionX.vel, mb.motionY.vel, last.offX, last.offY))

\* a click of the pointer off the centre of a button that was moving
C8_Witness ==
    /\ last.kind = "click" /\ last.pointer /\ ~last.atZero /\ ~mb.err
    /\ last.offX # 0 /\ last.hadInterval
    /\ mb.motionX.vel # 0

\* pointer velocities of the same sign as v that are slower than v
SlowerVels(v) ==
    {Sign(v) * k : k \in {k \in {1, 3, 8, 20, 100, 300, 400} : k < Abs(v)}}

\* what a hit gives on the two axes when the tracker's stored velocity is
\* <<vX, vY>>, for the controller as the hit test of this step found it
GivenFor(vX, vY) ==
    HitVel([mb EXCEPT !.mt = [mb'.mt EXCEPT !.velX = vX, !.velY = vY]],
           Minus(Minus(mb'.mt.posX, mb.leftPos), -Thickner),
           Minus(Minus(mb'.mt.posY, mb.topPos), -Thickner),
           now', CHOOSE d \in RandomDirs : TRUE)

\* C16: a button at rest hit by a pointer with velocity v # 0 on an axis
\* that is eligible for the rebound gets on that axis a velocity of the sign
\* of v and of a magnitude over abs(v), and no less than a pointer that is
\* slower on that axis would have given it there.
C16_PushedAlongPointer ==
    [][(/\ last'.kind = "move" /\ mb'.gave = "collision"
        /\ mb.motionX.vel = 0 /\ mb.motionY.vel = 0) =>
          LET vX == mb'.mt.velX
              vY == mb'.mt.velY
              x == Minus(Minus(mb'.mt.posX, mb.leftPos), -Thickner)
              y == Minus(Minus(mb'.mt.posY, mb.topPos), -Thickner)
          IN  /\ (EntrySides(x, y, vX, vY).horizontal /\ vX # 0) =>
                    /\ Sign(mb'.motionX.vel) = Sign(vX)
                    /\ Abs(mb'.motionX.vel) > Abs(vX)
                    /\ \A w \in SlowerVels(vX) :
                          Abs(GivenFor(w, vY)[1]) <= Abs(mb'.motionX.vel)
              /\ (EntrySides(x, y, vX, vY).vertical /\ vY # 0) =>
                    /\ Sign(mb'.motionY.vel) = Sign(vY)
                    /\ Abs(mb'.motionY.vel) > Abs(vY)
                    /\ \A w \in SlowerVels(vY) :
                          Abs(GivenFor(vX, w)[2]) <= Abs(mb'.motionY.vel)
      ]_vars

\* a button at rest hit by a moving pointer and sent off faster than it on
\* the eligible axis
C16_Witness ==
    /\ last.kind = "move" /\ mb.gave = "collision" /\ ~last.hadInterval
    /\ mb.mt.velX < -100
    /\ EntrySides(MouseX, MouseY, mb.mt.velX, mb.mt.velY).horizontal
    /\ mb.motionX.vel < mb.mt.velX

\* C17: a collision gives a velocity only when the hit flag goes from
\* false to true.  The flag is what the last hit test reported (the pointer
\* in the hit area, without immunity) and only a hit test changes it, so
\* that while the pointer stays in the hit area from test to test no second
\* velocity is given before a test has reported no hit.
C17_OnlyOnNewHit ==
    /\ [][mb'.gave = "collision" => (~mb.hit /\ mb'.hit)]_vars
    /\ [][mb'.hit # mb.hit => mb'.tested]_vars
    /\ [](mb.tested =>
            mb.hit = (~mb.hitImmune /\ InHitArea(MouseX, MouseY)))

\* a hit test that found the pointer in the hit area again, the flag
\* already set, and gave no velocity
C17_Witness ==
    /\ last.kind \in {"move", "tick"} /\ last.hadHit
    /\ mb.tested /\ mb.hit /\ mb.gave = "none"

\* What the hit test of a step worked with: the engines as the step's
\* update left them (a tick) or found them (a pointer event), the pointer
\* in the coordinates of the hit area, its velocity as the tracker reported
\* it, and the response before the minimum speeds.
HitMotionX ==
    IF last'.kind = "tick" THEN UpdateAxis(mb.motionX, mb.leftPos, now')[1]
    ELSE mb.motionX

HitMotionY ==
    IF last'.kind = "tick" THEN UpdateAxis(mb.motionY, mb.topPos, now')[1]
    ELSE mb.motionY

HitPointX == Minus(Minus(mb'.mt.posX, mb'.leftPos), -Thickner)

HitPointY == Minus(Minus(mb'.mt.posY, mb'.topPos), -Thickner)

HitMouseVelX == TrackerVelX(mb'.mt, now')

HitMouseVelY == TrackerVelY(mb'.mt, now')

HitEntry ==
    EntrySides(HitPointX, HitPointY, HitMouseVelX - HitMotionX.vel,
               HitMouseVelY - HitMotionY.vel)

RawVelX ==
    ResponseVel(HitMotionX, HitEntry.horizontal,
                HitMouseVelX - HitMotionX.vel, HitMouseVelX)

RawVelY ==
    ResponseVel(HitMotionY, HitEntry.vertical,
                HitMouseVelY - HitMotionY.vel, HitMouseVelY)

\* the square of the speed the button has
SpeedSq == (mb.motionX.vel * mb.motionX.vel) + (mb.motionY.vel * mb.motionY.vel)

\* C18 as stated: every collision gives a velocity of magnitude MinHitVel
\* at least.
C18_Original == mb.gave = "collision" => SpeedSq >= MinHitVel * MinHitVel

\* C18 as amended: every collision gives a velocity whose magnitude is
\* MinHitVel at least up to the rounding of its components (here to within
\* 1 px/s), hence not zero; and a response of exactly zero on both axes
\* gives a velocity that points away from the pointer, off the centre of
\* the hit area.
C18_AboutMinimumSpeed ==
    /\ [](mb.gave = "collision" =>
            SpeedSq >= (MinHitVel - 1) * (MinHitVel - 1))
    /\ [][(/\ mb'.gave = "collision" /\ RawVelX = 0 /\ RawVelY = 0
            /\ (HitPointX # RoundDiv(HitWidth, 2)
                  \/ HitPointY # RoundDiv(HitHeight, 2))) =>
              /\ PointsAway(mb'.motionX.vel, mb'.motionY.vel,
                            HitPointX - RoundDiv(HitWidth, 2),
                            HitPointY - RoundDiv(HitHeight, 2))
              /\ (mb'.motionX.vel # 0 \/ mb'.motionY.vel # 0)
         ]_vars

\* a pointer that came to a button at rest without a velocity, off the
\* centre on both axes, and pushed it away
C18_Witness ==
    /\ last.kind = "move" /\ mb.gave = "collision" /\ ~last.hadInterval
    /\ mb.mt.velX = 0 /\ mb.mt.velY = 0
    /\ MouseX < RoundDiv(HitWidth, 2) /\ MouseY < RoundDiv(HitHeight, 2)
    /\ mb.motionX.vel > 0 /\ mb.motionY.vel > 0

\* each axis is at rest or has the minimum speed of an axis
AxesAtMinimum ==
    /\ (mb.motionX.vel = 0 \/ Abs(mb.motionX.vel) >= MinAxisVel)
    /\ (mb.motionY.vel = 0 \/ Abs(mb.motionY.vel) >= MinAxisVel)

\* C19 as stated: the velocity a collision gives on each axis is zero or of
\* magnitude MinAxisVel at least.
C19_Original == mb.gave = "collision" => AxesAtMinimum

\* C19 as amended: the same, unless the response before the minimum speeds
\* is exactly zero on both axes; the push away from the pointer given then
\* has a magnitude of MinHitVel or more and components of any size.
C19_AxisMinimum ==
    [][(mb'.gave = "collision" /\ ~(RawVelX = 0 /\ RawVelY = 0)) =>
          AxesAtMinimum']_vars

\* a collision whose two components were both raised to the minimum of an
\* axis and then scaled to the combined minimum
C19_Witness ==
    /\ mb.gave = "collision" /\ mb.mt.velX # 0 /\ mb.mt.velY # 0
    /\ Abs(mb.mt.velX) < MinAxisVel /\ Abs(mb.mt.velY) < MinAxisVel
    /\ Abs(mb.motionX.vel) > MinAxisVel /\ Abs(mb.motionY.vel) > MinAxisVel

\* the velocity stated for an axis before the minimum speeds: the rebound of
\* minus the velocity of the pointer in the frame of the button, taken back
\* to the frame of the container, on an eligible axis; the velocity the
\* axis has plus half that of the pointer on another
StatedVel(motion, eligible, trackerVel) ==
    IF eligible
    THEN ReboundVel(motion, -(trackerVel - motion.vel)) + trackerVel
    ELSE motion.vel + RoundDiv(trackerVel, 2)

\* an eligible axis comes back reversed, slower (strictly or not); another
\* keeps its velocity
ReversedOrKept(eligible, stated, vel, strictly) ==
    IF eligible
    THEN /\ Sign(stated) = -Sign(vel)
         /\ IF strictly THEN Abs(stated) < Abs(vel) ELSE Abs(stated) <= Abs(vel)
    ELSE stated = vel

\* what is stated of the collision of a step: the velocity given is the
\* stated one, taken through the minimum of each axis and the combined
\* minimum; and where a button in motion meets a pointer without a
\* velocity, each axis is reversed or kept
CollisionAsStated(strictly) ==
    \E motionX \in {HitMotionX}, motionY \in {HitMotionY},
       mouseVelX \in {HitMouseVelX}, mouseVelY \in {HitMouseVelY},
       mouseX \in {HitPointX}, mouseY \in {HitPointY} :
       \E entry \in {EntrySides(mouseX, mouseY, mouseVelX - motionX.vel,
                                mouseVelY - motionY.vel)} :
          \E velX \in {StatedVel(motionX, entry.horizontal, mouseVelX)},
             velY \in {StatedVel(motionY, entry.vertical, mouseVelY)} :
             /\ \E minX \in {MinVel(velX)}, minY \in {MinVel(velY)},
                   dir \in RandomDirs :
                   <<mb'.motionX.vel, mb'.motionY.vel>> =
                       BoostVel(minX, minY, mouseX, mouseY, dir)
             /\ (/\ mouseVelX = 0 /\ mouseVelY = 0
                 /\ (motionX.vel # 0 \/ motionY.vel # 0)) =>
                   /\ ReversedOrKept(entry.horizontal, velX, motionX.vel,
                                     strictly)
                   /\ ReversedOrKept(entry.vertical, velY, motionY.vel,
                                     strictly)

C27_ImpulseNeverThrows ==
    /\ ~mb.err
    /\ Finite(mb.mt.velX) /\ Finite(mb.mt.velY)
    /\ Finite(TrackerVelX(mb.mt, now)) /\ Finite(TrackerVelY(mb.mt, now))
    /\ SetPosOk(mb.motionX, mb.leftPos) /\ SetPosOk(mb.motionY, mb.topPos)
    /\ (last.kind = "click" => mb.gave = "activation")
    /\ (mb.gave # "none" =>
          /\ mb.motionX.initPos = mb.leftPos /\ mb.motionX.pos = mb.leftPos
          /\ mb.motionY.initPos = mb.topPos /\ mb.motionY.pos = mb.topPos
          /\ SetVelOk(mb.motionX, now, mb.motionX.initVel)
          /\ SetVelOk(mb.motionY, now, mb.motionY.initVel)
          /\ mb.motionX.trajStartGlobalTime = now
          /\ mb.motionY.trajStartGlobalTime = now
          /\ mb.motionX.vel = mb.motionX.initVel
          /\ mb.motionY.vel = mb.motionY.initVel)

\* a collision found by a tick with the button rendered in a corner of its
\* area: each setPos of the impulse is passed a boundary
C27_Witness ==
    /\ last.kind = "tick" /\ mb.gave = "collision"
    /\ mb.leftPos \in {0, HorzBound} /\ mb.topPos \in {0, VertBound}

\* C28: between callbacks the immunity is set exactly when an alert timeout
\* is pending, which is exactly when the controller holds its handle.  The
\* immunity gets set only in a click, which gives the velocity and leaves
\* the one timeout it installed, due AlertTime later; it gets cleared only
\* by the timeout running _alertEnd, which leaves no timeout and no handle.
C28_ImmuneIffTimerPending ==
    /\ [](mb.hitImmune <=> (mb.timeouts # {}))
    /\ [](mb.hitImmune <=> (mb.alertTimeoutID # NoTimer))
    /\ [][(~mb.hitImmune /\ mb'.hitImmune) => last'.kind = "click"]_vars
    /\ [][last'.kind = "click" =>
             /\ mb'.hitImmune /\ mb'.gave = "activation"
             /\ mb'.alertTimeoutID # NoTimer
             /\ mb'.timeouts = {[id |-> mb'.alertTimeoutID,
                                 due |-> now' + AlertTime]}
         ]_vars
    /\ [][(mb.hitImmune /\ ~mb'.hitImmune) =>
             /\ last'.kind = "alertEnd"
             /\ mb'.alertTimeoutID = NoTimer /\ mb'.timeouts = {}
         ]_vars

\* the timeout of a click has run _alertEnd while the button still moves:
\* the immunity, the timeout and its handle are gone together
C28_Witness ==
    /\ last.kind = "alertEnd" /\ last.hadTimeout /\ Moving
    /\ ~mb.hitImmune /\ mb.alertTimeoutID = NoTimer /\ mb.timeouts = {}

(***************************************************************************)
(* The claim on _entrySides, under SpecSides.                              *)
(***************************************************************************)

\* abs(vX) times the distance from the edge the pointer came in by on the
\* vertical axis, for the last call
SidesLhs ==
    Abs(sides.vX) * (IF sides.vY > 0 THEN sides.y ELSE HitHeight - sides.y)

SidesRhs ==
    Abs(sides.vY) * (IF sides.vX > 0 THEN sides.x ELSE HitWidth - sides.x)

\* C20 as stated: for every point of the hit area and every relative
\* velocity, zero components included, X is eligible exactly when
\* lhs >= rhs and Y exactly when lhs <= rhs, so that one of them always is
\* and both are exactly on equality.
C20_Original ==
    sides.x # NaN =>
        /\ sides.out.horizontal = (SidesLhs >= SidesRhs)
        /\ sides.out.vertical = (SidesLhs <= SidesRhs)

\* C20 as amended: the same, except where exactly one component of the
\* relative velocity is zero and lhs = rhs (the pointer is on the edge the
\* distance is taken from): there only the axis of the other component is
\* eligible.  One axis always is eligible.
C20_EntrySides ==
    sides.x # NaN =>
        /\ IF ((sides.vX = 0) # (sides.vY = 0)) /\ SidesLhs = SidesRhs
           THEN /\ sides.out.horizontal = (sides.vY = 0)
                /\ sides.out.vertical = (sides.vX = 0)
           ELSE /\ sides.out.horizontal = (SidesLhs >= SidesRhs)
                /\ sides.out.vertical = (SidesLhs <= SidesRhs)
        /\ (sides.out.horizontal \/ sides.out.vertical)

\* a pointer that came in by a corner: both axes eligible
C20_Witness ==
    /\ sides.x # NaN /\ sides.vX # 0 /\ sides.vY # 0
    /\ sides.vX # sides.vY /\ SidesLhs = SidesRhs /\ SidesLhs > 0
    /\ sides.out.horizontal /\ sides.out.vertical

=============================================================================
